---- MODULE Spec2Model ----
(***************************************************************************)
(* Model of src/src/App.js: the address book held in the React state       *)
(* `addresses`, its persistence to localStorage, and the asynchronous      *)
(* handlers refreshBalance, requestAirdrop and transferSOL.                *)
(*                                                                         *)
(* JavaScript runs every handler to its next `await` without interruption, *)
(* so one action is one such run-to-completion segment.  A handler closes  *)
(* over the `addresses`, `transferData` and `faucetAmount` of the render   *)
(* in which it was invoked; that captured value is the field `snap` (and   *)
(* `amount`) of the invocation's task record.                              *)
(*                                                                         *)
(* Amounts in display units (SOL) are fixed-point numbers counted in       *)
(* millionths of a SOL; ledger amounts are counted in lamports.  NaN is    *)
(* the value parseFloat gives for text that is no number and for a record  *)
(* without a balance field.                                                *)
(***************************************************************************)
EXTENDS Integers, Sequences, FiniteSets, TLC

VARIABLES addresses, storage, now, generated, transferData, faucetAmount, tasks, last,
          events, late

vars == <<addresses, storage, now, generated, transferData, faucetAmount, tasks, last,
          events, late>>

-----------------------------------------------------------------------------
(* Bounds of the model *)

MaxRecords == 2
MaxTasks == 2
MaxEvents == 5
MaxTicks == 1

(* Program constants *)

LAMPORTS_PER_SOL == 1000000000
MicroPerSol == 10^6
FEE_RESERVE == 5
MaxAirdrop == 2
SecretKeyLength == 64

(* Not-a-number: a value outside the range of every amount *)
NaN == -(2^30)

TaskIds == 1..MaxTasks


(* What connection.getBalance can answer, in lamports *)
LamportValues == {0, 10000}

-----------------------------------------------------------------------------
(* Pure helpers *)

Range(s) == {s[i] : i \in DOMAIN s}

(* balanceLamports / LAMPORTS_PER_SOL, in millionths of a SOL *)
ToDisplay(lamports) == lamports \div (LAMPORTS_PER_SOL \div MicroPerSol)

(* item.id.toString() *)
IdText(id) == ToString(id)

-----------------------------------------------------------------------------
(* The address book *)

(* A record that is appended with its private key shown *)
NewRecordShown(id, k) ==
  [id |-> id, publicKey |-> k, privateKey |-> [key |-> k, len |-> SecretKeyLength],
   showPrivate |-> TRUE, balance |-> 0]

(* The object createSolanaAddress appends; key k stands for the k-th keypair
   Keypair.generate() returns, its address text and its encoded secret. *)
NewRecord(id, k) ==
  [id |-> id, publicKey |-> k, privateKey |-> [key |-> k, len |-> SecretKeyLength],
   showPrivate |-> FALSE, balance |-> 0]

NoTransferData == [fromId |-> "", toPubkey |-> "", amount |-> ""]

(* No promise has settled yet *)
NoSettlement == [by |-> "", how |-> "", err |-> FALSE, message |-> ""]

(* Nothing fetched, built or asked for yet *)
NoBlockhash == [blockhash |-> 0, lastValidBlockHeight |-> 0]

NoTransaction ==
  [feePayer |-> 0, toPubkey |-> "", amount |-> NaN, recentBlockhash |-> 0, signed |-> FALSE]

NoConfirmation == [signature |-> NoTransaction, blockhash |-> 0, lastValidBlockHeight |-> 0]

(* An invocation slot of an async handler; the slot is free again when the
   invocation has returned. *)
NoTask ==
  [kind |-> "none", pc |-> "idle", id |-> 0, snap |-> <<>>, from |-> 0, to |-> "",
   amount |-> NaN, pending |-> {}, results |-> <<>>, settled |-> NoSettlement,
   log |-> <<>>, fetched |-> NoBlockhash, transaction |-> NoTransaction,
   confirming |-> NoConfirmation]

(* What the invocation that returned in the step just taken leaves to be
   seen: the handler, what its closure held, the alert it raised (if any) and
   the calls and state writes it made, in order. *)
Returned(task, alert, calls) ==
  [kind |-> task.kind, id |-> task.id, to |-> task.to, results |-> task.results,
   settled |-> task.settled, alert |-> alert, log |-> task.log \o calls]

NoAlert == [text |-> "", detail |-> ""]

NothingReturned ==
  [kind |-> "none", id |-> 0, to |-> "", results |-> <<>>, settled |-> NoSettlement,
   alert |-> NoAlert, log |-> <<>>]

(* The next free invocation slot *)
Free(t) == tasks[t].kind = "none" /\ \A u \in TaskIds : u < t => tasks[u].kind # "none"

(* A state update that no effect stores *)
setAddressesUnstored(new) ==
  /\ addresses' = new
  /\ UNCHANGED storage

(* setAddresses followed by the effect that stores the array in localStorage *)
setAddresses(new) ==
  /\ addresses' = new
  /\ storage' = new

(* A record as an earlier session stored it: created at id, balance as last
   refreshed, private key hidden *)
Stored(id, k, lamports) == [NewRecord(id, k) EXCEPT !.balance = ToDisplay(lamports)]

(* The arrays found in localStorage at start: none stored yet, one or two
   records, funded or not, and two records that carry the same id (created
   within one millisecond, or one of them imported with that id) *)
StoredBooks ==
  {<<>>,
   <<Stored(1, 1, 0)>>,
   <<Stored(1, 1, 10000)>>,
   <<Stored(1, 1, 10000), Stored(2, 2, 0)>>,
   <<Stored(1, 1, 10000), Stored(1, 2, 10000)>>}

(* Date.now() at the start of the session: later than the creation of every
   stored record *)
ClockAtStart ==
  LET stored == UNION {{b[i].id : i \in DOMAIN b} : b \in StoredBooks}
  IN 1 + CHOOSE m \in stored : \A id \in stored : id <= m

MaxClock == ClockAtStart + MaxTicks

(* An id no record has *)
AbsentId == MaxClock + 1

Ids == 1..AbsentId

(* The ids a handler is called with: those of the records shown, and one
   that no record has *)
Callable(id) == id = AbsentId \/ \E i \in DOMAIN addresses : addresses[i].id = id

(* The kinds of promise that are raced, and the kinds of which a promise has
   lost a race and has not settled yet *)
Racers == {"timer", "confirmation"}

NoLate == {}

(* useState(() => JSON.parse(localStorage.getItem(...))) and the first run of
   the effect that stores the array back *)
Init ==
  /\ addresses \in StoredBooks
  /\ storage = addresses
  /\ now = ClockAtStart
  /\ generated = Len(addresses)
  /\ transferData = NoTransferData
  /\ faucetAmount = "1"
  /\ tasks = [t \in TaskIds |-> NoTask]
  /\ last = NothingReturned
  /\ events = 0
  /\ late = NoLate

(* A user event: it dismisses what the last returned handler showed *)
UserEvent ==
  /\ events < MaxEvents
  /\ events' = events + 1

(* Date.now() advances *)
Tick ==
  /\ now < MaxClock
  /\ now' = now + 1
  /\ last' = NothingReturned
  /\ UNCHANGED <<late, addresses, storage, generated, transferData, faucetAmount, tasks, events>>

createSolanaAddress ==
  /\ UserEvent
  /\ last' = NothingReturned
  /\ Len(addresses) < MaxRecords
  /\ generated < MaxRecords
  /\ generated' = generated + 1
  /\ setAddresses(Append(addresses, NewRecord(now, generated + 1)))
  /\ UNCHANGED <<late, now, transferData, faucetAmount, tasks>>

(* A delete that also drops the records created after the one deleted *)
deleteAddressAndLater(id) ==
  /\ UserEvent
  /\ Callable(id)
  /\ last' = NothingReturned
  /\ setAddresses(SelectSeq(addresses, LAMBDA addr : addr.id < id))
  /\ UNCHANGED <<late, now, generated, transferData, faucetAmount, tasks>>

deleteAddress(id) ==
  /\ UserEvent
  /\ Callable(id)
  /\ last' = NothingReturned
  /\ setAddresses(SelectSeq(addresses, LAMBDA addr : addr.id # id))
  /\ UNCHANGED <<late, now, generated, transferData, faucetAmount, tasks>>

(* A toggle that puts the first record's private key into the toggled record *)
togglePrivateKeyRekeys(id) ==
  /\ UserEvent
  /\ Callable(id)
  /\ last' = NothingReturned
  /\ setAddresses([i \in DOMAIN addresses |->
        IF addresses[i].id = id
        THEN [addresses[i] EXCEPT !.showPrivate = ~addresses[i].showPrivate,
                                  !.privateKey = addresses[1].privateKey]
        ELSE addresses[i]])
  /\ UNCHANGED <<late, now, generated, transferData, faucetAmount, tasks>>

(* A toggle that shows the private key and never hides it *)
togglePrivateKeyShows(id) ==
  /\ UserEvent
  /\ Callable(id)
  /\ last' = NothingReturned
  /\ setAddresses([i \in DOMAIN addresses |->
        IF addresses[i].id = id
        THEN [addresses[i] EXCEPT !.showPrivate = TRUE]
        ELSE addresses[i]])
  /\ UNCHANGED <<late, now, generated, transferData, faucetAmount, tasks>>

togglePrivateKey(id) ==
  /\ UserEvent
  /\ Callable(id)
  /\ last' = NothingReturned
  /\ setAddresses([i \in DOMAIN addresses |->
        IF addresses[i].id = id
        THEN [addresses[i] EXCEPT !.showPrivate = ~addresses[i].showPrivate]
        ELSE addresses[i]])
  /\ UNCHANGED <<late, now, generated, transferData, faucetAmount, tasks>>

-----------------------------------------------------------------------------
(* Balance refresh *)

(* What connection.getBalance can do: answer an amount of lamports, or throw *)
Answers == [ok : {TRUE}, lamports : LamportValues] \cup {[ok |-> FALSE, lamports |-> 0]}

(* getBalance: the looked-up amount, and 0 when the lookup throws *)
getBalance(answer) == IF answer.ok THEN answer.lamports ELSE 0

(* The indices refreshBalance looks up in the array it closed over *)
Matches(snap, id) == {i \in DOMAIN snap : snap[i].id = id}

(* An update that also hides the private key of the refreshed record *)
UpdatedAndHidden(snap, results) ==
  [i \in DOMAIN snap |->
     IF i \in DOMAIN results
     THEN [snap[i] EXCEPT !.balance = ToDisplay(getBalance(results[i])),
                          !.showPrivate = FALSE]
     ELSE snap[i]]

(* updatedAddresses: the closed-over array with the looked-up balances *)
UpdatedAddresses(snap, results) ==
  [i \in DOMAIN snap |->
     IF i \in DOMAIN results
     THEN [snap[i] EXCEPT !.balance = ToDisplay(getBalance(results[i]))]
     ELSE snap[i]]

RECURSIVE Repeat(_, _)
Repeat(x, n) == IF n = 0 THEN <<>> ELSE <<x>> \o Repeat(x, n - 1)

(* The task once it has called refreshBalance(id) in its closure: one
   connection.getBalance is issued for every record of snap with that id. *)
BeginRefresh(task, id) ==
  [task EXCEPT !.pc = "refresh",
               !.pending = Matches(task.snap, id),
               !.results = <<>>,
               !.log = task.log \o <<"refreshBalance">>
                       \o Repeat("getBalance", Cardinality(Matches(task.snap, id)))]

(* The user presses Refresh Balance *)
refreshBalance(t, id) ==
  /\ UserEvent
  /\ Callable(id)
  /\ Free(t)
  /\ LET call == BeginRefresh([NoTask EXCEPT !.kind = "refresh", !.id = id,
                                             !.snap = addresses], id)
     IN IF call.pending = {}
        THEN /\ setAddresses(UpdatedAddresses(call.snap, call.results))
             /\ last' = Returned(call, NoAlert, <<"setAddresses">>)
             /\ UNCHANGED tasks
        ELSE /\ tasks' = [tasks EXCEPT ![t] = call]
             /\ last' = NothingReturned
             /\ UNCHANGED <<addresses, storage>>
  /\ UNCHANGED <<late, now, generated, transferData, faucetAmount>>

(* One balance lookup settles; with the last one Promise.all resolves and the
   handler writes the array it computed from its closure.  transferSOL then
   clears the transfer form. *)
getBalanceSettles(t, i, answer) ==
  /\ tasks[t].pc = "refresh"
  /\ i \in tasks[t].pending
  /\ LET task == tasks[t]
         results == [j \in DOMAIN task.results \cup {i} |->
                       IF j = i THEN answer ELSE task.results[j]]
         left == task.pending \ {i}
     IN IF left # {}
        THEN /\ tasks' = [tasks EXCEPT ![t] =
                  [task EXCEPT !.pending = left, !.results = results]]
             /\ last' = NothingReturned
             /\ UNCHANGED <<addresses, storage, transferData>>
        ELSE /\ setAddresses(UpdatedAddresses(task.snap, results))
             /\ tasks' = [tasks EXCEPT ![t] = NoTask]
             /\ IF task.kind = "transfer"
                THEN /\ transferData' = NoTransferData
                     /\ last' = Returned([task EXCEPT !.results = results], NoAlert,
                                         <<"setAddresses", "setTransferData">>)
                ELSE /\ UNCHANGED transferData
                     /\ last' = Returned([task EXCEPT !.results = results], NoAlert,
                                         <<"setAddresses">>)
  /\ UNCHANGED <<late, now, generated, faucetAmount, events>>

-----------------------------------------------------------------------------
(* Transfer *)

(* What the user can type into the destination field: nothing, text that is
   no address, the address of a point off the curve, an account's address *)
DestTexts == {"", "notAnAddress", "offCurve", "dest"}

(* What the number input can hold as the amount *)
AmountTexts == {"", "0", "-1", "0.000001", "0.000005"}

(* What the number input of the faucet can hold *)
FaucetTexts == {"", "1", "2", "2.1", "3"}

(* parseFloat of the text of a number input, in millionths of a SOL *)
ParseFloat(text) ==
  CASE text = "0" -> 0
    [] text = "-1" -> -MicroPerSol
    [] text = "0.000001" -> 1
    [] text = "0.000005" -> 5
    [] text = "1" -> MicroPerSol
    [] text = "2" -> 2 * MicroPerSol
    [] text = "2.1" -> 2 * MicroPerSol + MicroPerSol \div 10
    [] text = "3" -> 3 * MicroPerSol
    [] OTHER -> NaN

(* new PublicKey(text) does not throw *)
IsAddress(text) == text \in {"offCurve", "dest"}

(* The destination check without the test of the curve *)
CurveNotTested(text) == TRUE

(* PublicKey.isOnCurve(toPublicKey.toBytes()) *)
IsOnCurve(text) == text = "dest"

(* !fromId || !toPubkey || !amount is false *)
PresenceOk(form) == form.fromId # "" /\ form.toPubkey # "" /\ form.amount # ""

(* addresses.find((item) => item.id.toString() === fromId): an index, 0 if none *)
FindFrom(book, fromId) ==
  IF \E i \in DOMAIN book : IdText(book[i].id) = fromId
  THEN CHOOSE i \in DOMAIN book :
         /\ IdText(book[i].id) = fromId
         /\ \A j \in DOMAIN book : IdText(book[j].id) = fromId => i <= j
  ELSE 0

(* The amount check with < in place of <= *)
AmountOkNotNegative(amount) == ~(amount = NaN \/ amount < 0)

(* isNaN(transferAmount) || transferAmount <= 0 is false *)
AmountOk(amount) == ~(amount = NaN \/ amount <= 0)

(* senderBalance < transferAmount + 0.000005; a comparison with NaN is false *)
Insufficient(balance, amount) ==
  /\ balance # NaN
  /\ amount # NaN
  /\ balance < amount + FEE_RESERVE

(* The destination check: "" when the text is an address on the curve *)
DestinationAlert(text) ==
  IF ~IsAddress(text) THEN "Invalid destination address format"
  ELSE IF ~IsOnCurve(text) THEN "Invalid destination address"
  ELSE ""

(* The alert of the first local check of transferSOL that fails, "" if none *)
ValidationAlert(form, book) ==
  IF ~PresenceOk(form) THEN "Please fill in all transfer details"
  ELSE IF FindFrom(book, form.fromId) = 0 THEN "Invalid From address selection."
  ELSE IF ~AmountOk(ParseFloat(form.amount)) THEN "Please enter a valid positive amount"
  ELSE IF Insufficient(book[FindFrom(book, form.fromId)].balance, ParseFloat(form.amount))
       THEN "Insufficient balance. Please ensure you have enough SOL for transfer and fees."
  ELSE DestinationAlert(form.toPubkey)

(* The form's select lists the records of the book; the inputs take text *)
handleTransferChange(name, value) ==
  /\ \/ name = "fromId" /\ value \in {""} \cup {IdText(addresses[i].id) : i \in DOMAIN addresses}
     \/ name = "toPubkey" /\ value \in DestTexts
     \/ name = "amount" /\ value \in AmountTexts
  /\ transferData[name] # value
  /\ transferData' = [transferData EXCEPT ![name] = value]
  /\ UserEvent
  /\ last' = NothingReturned
  /\ UNCHANGED <<late, addresses, storage, now, generated, faucetAmount, tasks>>

(* The user presses Transfer: the local checks, the construction of the
   transaction, and the call of connection.getLatestBlockhash *)
transferSOL(t) ==
  /\ UserEvent
  /\ Free(t)
  /\ LET alert == ValidationAlert(transferData, addresses)
         from == FindFrom(addresses, transferData.fromId)
         call == [NoTask EXCEPT !.kind = "transfer", !.snap = addresses]
     IN IF alert # ""
        THEN /\ last' = Returned(call, [text |-> alert, detail |-> ""], <<>>)
             /\ UNCHANGED tasks
        ELSE /\ tasks' = [tasks EXCEPT ![t] =
                  [call EXCEPT !.pc = "blockhash", !.from = from,
                               !.to = transferData.toPubkey,
                               !.id = addresses[from].id,
                               !.amount = ParseFloat(transferData.amount),
                               !.transaction =
                                 [NoTransaction EXCEPT
                                    !.feePayer = addresses[from].publicKey,
                                    !.toPubkey = transferData.toPubkey,
                                    !.amount = ParseFloat(transferData.amount)],
                               !.log = <<"getLatestBlockhash">>]]
             /\ last' = NothingReturned
  /\ UNCHANGED <<late, addresses, storage, now, generated, transferData, faucetAmount>>

(* catch (err): alert(`Transfer failed: ${err.message}`) *)
TransferFailed(message) == [text |-> "Transfer failed", detail |-> message]

(* The blockhashes the ledger can be at *)
Blockhashes == {1, 2}

(* What connection.getLatestBlockhash can do: answer the current blockhash
   with the last block height at which it is valid, or fail *)
BlockhashAnswers ==
  {[ok |-> TRUE, blockhash |-> h, lastValidBlockHeight |-> 150 + h] : h \in Blockhashes}
    \cup {[ok |-> FALSE, blockhash |-> 0, lastValidBlockHeight |-> 0]}

(* connection.getLatestBlockhash settles; the blockhash is put into the
   transaction, the transaction is signed and sent *)
blockhashSettles(t, answer) ==
  /\ tasks[t].pc = "blockhash"
  /\ IF answer.ok
     THEN /\ tasks' = [tasks EXCEPT ![t] =
               [@ EXCEPT !.pc = "send",
                         !.fetched = [blockhash |-> answer.blockhash,
                                      lastValidBlockHeight |-> answer.lastValidBlockHeight],
                         !.transaction = [@ EXCEPT !.recentBlockhash = answer.blockhash,
                                                   !.signed = TRUE],
                         !.log = @ \o <<"sendRawTransaction">>]]
          /\ last' = NothingReturned
     ELSE /\ tasks' = [tasks EXCEPT ![t] = NoTask]
          /\ last' = Returned(tasks[t], TransferFailed("network error"), <<>>)
  /\ UNCHANGED <<late, addresses, storage, now, generated, transferData, faucetAmount, events>>

(* Arguments taken from the transfer in the first slot, as a variable shared
   by all invocations would give them *)
ConfirmArgsShared(task) ==
  [signature |-> task.transaction,
   blockhash |-> tasks[1].fetched.blockhash,
   lastValidBlockHeight |-> tasks[1].fetched.lastValidBlockHeight]

(* The arguments of connection.confirmTransaction: the signature that
   sendRawTransaction returned, which is that of the transaction sent, and the
   blockhash and height of this invocation *)
ConfirmArgs(task) ==
  [signature |-> task.transaction,
   blockhash |-> task.fetched.blockhash,
   lastValidBlockHeight |-> task.fetched.lastValidBlockHeight]

(* connection.sendRawTransaction settles; the confirmation lookup and the
   timer are started and raced *)
sendSettles(t, ok) ==
  /\ tasks[t].pc = "send"
  /\ IF ok
     THEN /\ tasks' = [tasks EXCEPT ![t] =
               [@ EXCEPT !.pc = "confirm",
                         !.confirming = ConfirmArgs(tasks[t]),
                         !.log = @ \o <<"confirmTransaction">>]]
          /\ last' = NothingReturned
     ELSE /\ tasks' = [tasks EXCEPT ![t] = NoTask]
          /\ last' = Returned(tasks[t], TransferFailed("network error"), <<>>)
  /\ UNCHANGED <<late, addresses, storage, now, generated, transferData, faucetAmount, events>>

(* A timer that resolves instead of rejecting *)
TimerResolves == [by |-> "timer", how |-> "fulfilled", err |-> FALSE, message |-> ""]

(* How the timer promise settles after 30 seconds *)
TimerSettlement ==
  [by |-> "timer", how |-> "rejected", err |-> FALSE,
   message |-> "Transaction confirmation timeout"]

(* How connection.confirmTransaction can settle: confirmed, confirmed with an
   on-chain error, or failed *)
ConfirmSettlements ==
  {[by |-> "confirmation", how |-> "fulfilled", err |-> FALSE, message |-> ""],
   [by |-> "confirmation", how |-> "fulfilled", err |-> TRUE, message |-> ""],
   [by |-> "confirmation", how |-> "rejected", err |-> FALSE, message |-> "network error"]}

(* The race result taken without looking at confirmation.value.err *)
ThrownOnRejectionOnly(settlement) ==
  IF settlement.how = "rejected" THEN settlement.message ELSE ""

(* The message of the error thrown after the race has settled, "" if none:
   the rejection, or confirmation?.value?.err *)
Thrown(settlement) ==
  IF settlement.how = "rejected" THEN settlement.message
  ELSE IF settlement.err THEN "Transaction failed: on-chain error"
  ELSE ""

(* The first of the two raced promises settles *)
(* The promise of the race that has not settled when the other one has *)
Loser(settlement) == IF settlement.by = "timer" THEN "confirmation" ELSE "timer"

raceSettles(t, settlement) ==
  /\ tasks[t].pc = "confirm"
  /\ settlement \in ConfirmSettlements \cup {TimerSettlement}
  /\ late' = late \cup {Loser(settlement)}
  /\ IF Thrown(settlement) # ""
     THEN /\ tasks' = [tasks EXCEPT ![t] = NoTask]
          /\ last' = Returned([tasks[t] EXCEPT !.settled = settlement],
                              TransferFailed(Thrown(settlement)), <<>>)
     ELSE /\ tasks' = [tasks EXCEPT ![t] =
               BeginRefresh([tasks[t] EXCEPT !.settled = settlement,
                                             !.log = @ \o <<"alert success">>],
                            tasks[t].snap[tasks[t].from].id)]
          /\ last' = NothingReturned
  /\ UNCHANGED <<addresses, storage, now, generated, transferData, faucetAmount, events>>

(* A late settlement that is reported as a failed transfer *)
lateSettlesReports(by) ==
  /\ by \in late
  /\ late' = late \ {by}
  /\ last' = Returned([NoTask EXCEPT !.kind = "transfer"], TransferFailed("late"), <<>>)
  /\ UNCHANGED <<addresses, storage, now, generated, transferData, faucetAmount, tasks, events>>

(* The promise that lost a race settles: the timer calls reject, or the
   confirmation lookup answers; the race has settled already and nothing is
   waiting for either *)
lateSettles(by) ==
  /\ by \in late
  /\ late' = late \ {by}
  /\ last' = NothingReturned
  /\ UNCHANGED <<addresses, storage, now, generated, transferData, faucetAmount, tasks, events>>

-----------------------------------------------------------------------------
(* Faucet *)

setFaucetAmount(value) ==
  /\ UserEvent
  /\ value \in FaucetTexts
  /\ faucetAmount # value
  /\ faucetAmount' = value
  /\ last' = NothingReturned
  /\ UNCHANGED <<late, addresses, storage, now, generated, transferData, tasks>>

(* A cap of 3 in place of 2 *)
OverCapOfThree(amount) == amount # NaN /\ amount > (MaxAirdrop + 1) * MicroPerSol

(* requestedAmount > 2; a comparison with NaN is false *)
OverCap(amount) == amount # NaN /\ amount > MaxAirdrop * MicroPerSol

(* catch (err): alert("Airdrop failed! " + err.message) *)
AirdropFailed(message) == [text |-> "Airdrop failed!", detail |-> message]

(* The user presses Fund (Faucet) *)
requestAirdrop(t, id) ==
  /\ UserEvent
  /\ Callable(id)
  /\ Free(t)
  /\ LET call == [NoTask EXCEPT !.kind = "faucet", !.id = id, !.snap = addresses,
                                !.amount = ParseFloat(faucetAmount)]
     IN IF Matches(addresses, id) = {}
        THEN /\ last' = Returned(call, NoAlert, <<>>)
             /\ UNCHANGED tasks
        ELSE IF OverCap(call.amount)
        THEN /\ last' = Returned(call, [text |-> "Maximum airdrop amount is 2 SOL on testnet",
                                         detail |-> ""], <<>>)
             /\ UNCHANGED tasks
        ELSE /\ tasks' = [tasks EXCEPT ![t] =
                  [call EXCEPT !.pc = "airdrop", !.log = <<"requestAirdrop">>]]
             /\ last' = NothingReturned
  /\ UNCHANGED <<late, addresses, storage, now, generated, transferData, faucetAmount>>

(* connection.requestAirdrop settles *)
airdropSettles(t, ok) ==
  /\ tasks[t].pc = "airdrop"
  /\ IF ok
     THEN /\ tasks' = [tasks EXCEPT ![t] =
               [@ EXCEPT !.pc = "airdropConfirm", !.log = @ \o <<"confirmTransaction">>]]
          /\ last' = NothingReturned
     ELSE /\ tasks' = [tasks EXCEPT ![t] = NoTask]
          /\ last' = Returned(tasks[t], AirdropFailed("network error"), <<>>)
  /\ UNCHANGED <<late, addresses, storage, now, generated, transferData, faucetAmount, events>>

(* connection.confirmTransaction(signature, "confirmed") settles; its value
   is not looked at *)
airdropConfirmSettles(t, settlement) ==
  /\ tasks[t].pc = "airdropConfirm"
  /\ settlement \in ConfirmSettlements
  /\ IF settlement.how = "rejected"
     THEN /\ tasks' = [tasks EXCEPT ![t] = NoTask]
          /\ last' = Returned([tasks[t] EXCEPT !.settled = settlement],
                              AirdropFailed(settlement.message), <<>>)
     ELSE /\ tasks' = [tasks EXCEPT ![t] =
               BeginRefresh([tasks[t] EXCEPT !.settled = settlement,
                                             !.log = @ \o <<"alert success">>],
                            tasks[t].id)]
          /\ last' = NothingReturned
  /\ UNCHANGED <<late, addresses, storage, now, generated, transferData, faucetAmount, events>>

-----------------------------------------------------------------------------
(* Import *)

(* The address and secret of a keypair made elsewhere *)
ForeignKey == MaxRecords + 1

ForeignEntry ==
  [id |-> 1, publicKey |-> ForeignKey,
   privateKey |-> [key |-> ForeignKey, len |-> SecretKeyLength],
   showPrivate |-> FALSE, balance |-> NaN]

(* The same entry with a secret that decodes to 63 bytes *)
ShortSecretEntry == [ForeignEntry EXCEPT !.privateKey.len = SecretKeyLength - 1]

(* An entry without id, without publicKey, without privateKey *)
NoIdEntry == [ForeignEntry EXCEPT !.id = 0]

NoPublicKeyEntry == [ForeignEntry EXCEPT !.publicKey = 0]

NoPrivateKeyEntry == [ForeignEntry EXCEPT !.privateKey = [key |-> 0, len |-> 0]]

(* An entry whose publicKey is text new PublicKey rejects *)
BadAddressEntry == [ForeignEntry EXCEPT !.publicKey = -1]

(* An entry of a backup file: the first keypair made here, under another id *)
BackupEntry == [NewRecord(2, 1) EXCEPT !.showPrivate = TRUE]

(* A second entry with the foreign address, under another id *)
TwinEntry == [ForeignEntry EXCEPT !.id = 2]

(* What a chosen file can parse to: an array of entries, or something else *)
Payloads ==
  {[array |-> TRUE, items |-> <<ForeignEntry>>],
   [array |-> TRUE, items |-> <<ForeignEntry, ShortSecretEntry>>],
   [array |-> FALSE, items |-> <<>>],
   [array |-> TRUE, items |-> <<ShortSecretEntry, ForeignEntry>>],
   [array |-> TRUE, items |-> <<NoIdEntry>>],
   [array |-> TRUE, items |-> <<ForeignEntry, NoPublicKeyEntry>>],
   [array |-> TRUE, items |-> <<NoPrivateKeyEntry, ForeignEntry>>],
   [array |-> TRUE, items |-> <<BadAddressEntry>>],
   [array |-> TRUE, items |-> <<BackupEntry, ForeignEntry>>],
   [array |-> TRUE, items |-> <<ForeignEntry, TwinEntry>>]}

(* A validation that looks at the first entry only *)
PayloadErrorOfFirst(payload) ==
  IF ~payload.array THEN "Invalid file format: expected an array of keypairs"
  ELSE IF payload.items # <<>> /\ payload.items[1].privateKey.len # SecretKeyLength
       THEN "Invalid private key format"
  ELSE ""

(* The message of the error the validation of the payload throws, "" if none.
   An id, address or secret that is missing is 0; an address above 0 is one
   new PublicKey accepts. *)
PayloadError(payload) ==
  IF ~payload.array THEN "Invalid file format: expected an array of keypairs"
  ELSE IF \E i \in DOMAIN payload.items :
            LET e == payload.items[i] IN e.publicKey = 0 \/ e.privateKey.len = 0 \/ e.id = 0
       THEN "Invalid keypair format"
  ELSE IF \E i \in DOMAIN payload.items : payload.items[i].publicKey < 0
       THEN "Invalid public key format"
  ELSE IF \E i \in DOMAIN payload.items : payload.items[i].privateKey.len # SecretKeyLength
       THEN "Invalid private key format"
  ELSE ""

(* A merge that skips the entries whose id is present *)
MergedById(prev, loaded) ==
  prev \o SelectSeq(loaded, LAMBDA e : \A i \in DOMAIN prev : prev[i].id # e.id)

(* [...prev, ...newAddresses] *)
Merged(prev, loaded) ==
  prev \o SelectSeq(loaded, LAMBDA e : \A i \in DOMAIN prev : prev[i].publicKey # e.publicKey)

(* reader.onload of loadKeypairs *)
loadKeypairs(payload) ==
  /\ UserEvent
  /\ payload \in Payloads
  /\ LET call == [NoTask EXCEPT !.kind = "import"]
     IN IF PayloadError(payload) # ""
        THEN /\ last' = Returned(call, [text |-> "Failed to load keypairs",
                                         detail |-> PayloadError(payload)], <<>>)
             /\ UNCHANGED <<addresses, storage>>
        ELSE /\ Len(Merged(addresses, payload.items)) <= MaxRecords
             /\ setAddresses(Merged(addresses, payload.items))
             /\ last' = Returned(call, [text |-> "Successfully loaded keypairs", detail |-> ""],
                                 <<"setAddresses">>)
  /\ UNCHANGED <<late, now, generated, transferData, faucetAmount, tasks>>

-----------------------------------------------------------------------------
(* Export *)

(* JSON.stringify of a record: the values of its fields, in their order; a
   balance the record does not have is left out and is missing again when the
   text is parsed *)
Stringified(record) ==
  <<record.id, record.publicKey, record.privateKey, record.showPrivate, record.balance>>

(* JSON.parse of that text *)
Parsed(text) ==
  [id |-> text[1], publicKey |-> text[2], privateKey |-> text[3], showPrivate |-> text[4],
   balance |-> text[5]]

(* An export that leaves the secrets out *)
ExportWithoutSecrets(book) ==
  [array |-> TRUE,
   items |-> [i \in DOMAIN book |->
                [Parsed(Stringified(book[i])) EXCEPT !.privateKey = [key |-> 0, len |-> 0]]]]

(* What the downloaded file parses to: JSON.stringify(addresses, null, 2) *)
ExportFile(book) ==
  [array |-> TRUE, items |-> [i \in DOMAIN book |-> Parsed(Stringified(book[i]))]]

(* The user presses Backup Keypairs *)
backupKeypairs ==
  /\ UserEvent
  /\ last' = Returned([NoTask EXCEPT !.kind = "backup",
                                     !.results = ExportFile(addresses).items],
                      NoAlert, <<"download">>)
  /\ UNCHANGED <<late, addresses, storage, now, generated, transferData, faucetAmount, tasks>>

-----------------------------------------------------------------------------
(* The specifications *)

FormValues == {""} \cup {IdText(id) : id \in Ids} \cup DestTexts \cup AmountTexts

Next ==
  \/ Tick
  \/ createSolanaAddress
  \/ backupKeypairs
  \/ \E id \in Ids : deleteAddress(id)
  \/ \E id \in Ids : togglePrivateKey(id)
  \/ \E t \in TaskIds, id \in Ids : refreshBalance(t, id)
  \/ \E t \in TaskIds, i \in 1..MaxRecords, answer \in Answers : getBalanceSettles(t, i, answer)
  \/ \E value \in FaucetTexts : setFaucetAmount(value)
  \/ \E t \in TaskIds, id \in Ids : requestAirdrop(t, id)
  \/ \E t \in TaskIds, ok \in BOOLEAN : airdropSettles(t, ok)
  \/ \E t \in TaskIds, settlement \in ConfirmSettlements : airdropConfirmSettles(t, settlement)
  \/ \E name \in {"fromId", "toPubkey", "amount"}, value \in FormValues :
       handleTransferChange(name, value)
  \/ \E t \in TaskIds : transferSOL(t)
  \/ \E t \in TaskIds, answer \in BlockhashAnswers : blockhashSettles(t, answer)
  \/ \E t \in TaskIds, ok \in BOOLEAN : sendSettles(t, ok)
  \/ \E t \in TaskIds, settlement \in ConfirmSettlements \cup {TimerSettlement} :
       raceSettles(t, settlement)
  \/ \E by \in Racers : lateSettles(by)
  \/ \E payload \in Payloads : loadKeypairs(payload)

Spec == Init /\ [][Next]_vars

(* The address book and its refreshes *)
NextBook ==
  \/ Tick
  \/ createSolanaAddress
  \/ \E id \in Ids : deleteAddress(id)
  \/ \E id \in Ids : togglePrivateKey(id)
  \/ \E t \in TaskIds, id \in Ids : refreshBalance(t, id)
  \/ \E t \in TaskIds, i \in 1..MaxRecords, answer \in Answers : getBalanceSettles(t, i, answer)
  \/ \E payload \in Payloads : loadKeypairs(payload)

SpecBook == Init /\ [][NextBook]_vars

(* The edits of the address book: no ledger lookups *)
NextEdits ==
  \/ Tick
  \/ createSolanaAddress
  \/ backupKeypairs
  \/ \E id \in Ids : deleteAddress(id)
  \/ \E id \in Ids : togglePrivateKey(id)
  \/ \E payload \in Payloads : loadKeypairs(payload)

SpecEdits == Init /\ [][NextEdits]_vars

(* A slot whose text JSON.parse rejects *)
MalformedSlot == <<[text |-> "{"]>>

(* The error JSON.parse throws in the initializer of useState is caught
   nowhere: the component does not mount and no handler can be called *)
UncaughtAtStart == [NothingReturned EXCEPT !.kind = "uncaught", !.log = <<"JSON.parse">>]

Mounted == last.kind # "uncaught"

(* The start of a session with whatever localStorage holds *)
InitStart ==
  \/ Init
  \/ /\ storage = MalformedSlot
     /\ addresses = <<>>
     /\ last = UncaughtAtStart
     /\ now = ClockAtStart
     /\ generated = 0
     /\ transferData = NoTransferData
     /\ faucetAmount = "1"
     /\ tasks = [t \in TaskIds |-> NoTask]
     /\ events = 0
     /\ late = NoLate

NextStart ==
  \/ Mounted /\ createSolanaAddress
  \/ Mounted /\ backupKeypairs
  \/ Mounted /\ \E id \in Ids : deleteAddress(id)
  \/ Mounted /\ \E payload \in Payloads : loadKeypairs(payload)

SpecStart == InitStart /\ [][NextStart]_vars

(* The refreshes of the balances shown *)
NextRefresh ==
  \/ \E id \in Ids : togglePrivateKey(id)
  \/ \E t \in TaskIds, id \in Ids : refreshBalance(t, id)
  \/ \E t \in TaskIds, i \in 1..MaxRecords, answer \in Answers : getBalanceSettles(t, i, answer)

SpecRefresh == Init /\ [][NextRefresh]_vars

(* The requests to the faucet, up to the answer of connection.requestAirdrop *)
NextFaucetRequest ==
  \/ \E id \in Ids : deleteAddress(id)
  \/ \E value \in FaucetTexts : setFaucetAmount(value)
  \/ \E t \in TaskIds, id \in Ids : requestAirdrop(t, id)
  \/ \E t \in TaskIds, ok \in BOOLEAN : airdropSettles(t, ok)

SpecFaucetRequest == Init /\ [][NextFaucetRequest]_vars

(* The faucet *)
NextFaucet ==
  \/ \E value \in FaucetTexts : setFaucetAmount(value)
  \/ \E t \in TaskIds, id \in Ids : requestAirdrop(t, id)
  \/ \E t \in TaskIds, ok \in BOOLEAN : airdropSettles(t, ok)
  \/ \E t \in TaskIds, settlement \in ConfirmSettlements : airdropConfirmSettles(t, settlement)
  \/ \E t \in TaskIds, i \in 1..MaxRecords, answer \in Answers : getBalanceSettles(t, i, answer)

SpecFaucet == Init /\ [][NextFaucet]_vars

(* The answers of a ledger that stays at its first blockhash *)
FirstBlockhashAnswers == {answer \in BlockhashAnswers : answer.blockhash <= 1}

(* The transfer form and the transfers *)
NextTransfer ==
  \/ \E id \in Ids : deleteAddress(id)
  \/ \E t \in TaskIds, i \in 1..MaxRecords, answer \in Answers : getBalanceSettles(t, i, answer)
  \/ \E name \in {"fromId", "toPubkey", "amount"}, value \in FormValues :
       handleTransferChange(name, value)
  \/ \E t \in TaskIds : transferSOL(t)
  \/ \E t \in TaskIds, answer \in FirstBlockhashAnswers : blockhashSettles(t, answer)
  \/ \E t \in TaskIds, ok \in BOOLEAN : sendSettles(t, ok)
  \/ \E t \in TaskIds, settlement \in ConfirmSettlements \cup {TimerSettlement} :
       raceSettles(t, settlement)
  \/ \E by \in Racers : lateSettles(by)
  \/ \E payload \in Payloads : loadKeypairs(payload)

SpecTransfer == Init /\ [][NextTransfer]_vars

(* The transfers from the form to their outcome, with a ledger that moves
   from one blockhash to the next *)
NextPipeline ==
  \/ \E name \in {"fromId", "toPubkey", "amount"}, value \in FormValues :
       handleTransferChange(name, value)
  \/ \E t \in TaskIds : transferSOL(t)
  \/ \E t \in TaskIds, answer \in BlockhashAnswers : blockhashSettles(t, answer)
  \/ \E t \in TaskIds, ok \in BOOLEAN : sendSettles(t, ok)
  \/ \E t \in TaskIds, settlement \in ConfirmSettlements \cup {TimerSettlement} :
       raceSettles(t, settlement)
  \/ \E by \in Racers : lateSettles(by)
  \/ \E t \in TaskIds, i \in 1..MaxRecords, answer \in Answers : getBalanceSettles(t, i, answer)

SpecPipeline == Init /\ [][NextPipeline]_vars

(* The timer of a race fires 30 seconds after it was set *)
TimerFires == \A t \in TaskIds : WF_vars(raceSettles(t, TimerSettlement))

(* The transfers from the form to their outcome, with a ledger that stays at
   its first blockhash, and a timer that fires *)
NextRace ==
  \/ \E name \in {"fromId", "toPubkey", "amount"}, value \in FormValues :
       handleTransferChange(name, value)
  \/ \E t \in TaskIds : transferSOL(t)
  \/ \E t \in TaskIds, answer \in FirstBlockhashAnswers : blockhashSettles(t, answer)
  \/ \E t \in TaskIds, ok \in BOOLEAN : sendSettles(t, ok)
  \/ \E t \in TaskIds, settlement \in ConfirmSettlements \cup {TimerSettlement} :
       raceSettles(t, settlement)
  \/ \E by \in Racers : lateSettles(by)
  \/ \E t \in TaskIds, i \in 1..MaxRecords, answer \in Answers : getBalanceSettles(t, i, answer)

SpecRaceFair == Init /\ [][NextRace]_vars /\ TimerFires

-----------------------------------------------------------------------------
(* Properties *)

(* A refresh writes its result and returns in this step *)
RefreshWrites(t) == tasks[t].pc = "refresh" /\ tasks'[t].pc = "idle"

(* Two books hold the same records in the same order, balances apart *)
SameExceptBalance(a, b) ==
  /\ Len(a) = Len(b)
  /\ \A i \in DOMAIN a : [a[i] EXCEPT !.balance = 0] = [b[i] EXCEPT !.balance = 0]

(* C1: no lost update.  When a refresh writes its result, whatever a create,
   delete, toggle or import did to the address book since the refresh started
   is still there: the book after the write holds the records it held before
   the write, in the same order, with only balances changed. *)
NoLostUpdate ==
  [][\A t \in TaskIds : RefreshWrites(t) => SameExceptBalance(addresses, addresses')]_vars

(* C2: concurrent refreshes of different records are safe.  When a refresh
   of one id has just returned while a refresh of another id was in flight,
   and that other refresh now writes its result, the records of the first id
   still hold the balance the first refresh wrote. *)
DisjointRefreshesKeep ==
  [][\A t \in TaskIds :
       (/\ RefreshWrites(t)
        /\ tasks[t].kind = "refresh"
        /\ last.kind = "refresh"
        /\ last.id # tasks[t].id)
       => \A i \in DOMAIN addresses :
            addresses[i].id = last.id
            => /\ i \in DOMAIN addresses'
               /\ addresses'[i].id = last.id
               /\ addresses'[i].balance = addresses[i].balance]_vars

(* A transfer whose timer fired before the confirmation lookup settled *)
TimedOut(x) == x.kind = "transfer" /\ x.settled.by = "timer"

(* C3: a confirmation timeout leaves the balance alone.  A transfer whose
   timer fires first returns at once with the timeout error, has made no
   balance lookup and no write, and leaves the address book as it is. *)
TimeoutLeavesBalance ==
  [][/\ \A t \in TaskIds : ~TimedOut(tasks'[t])
     /\ TimedOut(last')
        => /\ last'.alert.detail = "Transaction confirmation timeout"
           /\ Range(last'.log) \cap {"refreshBalance", "getBalance", "setAddresses"} = {}
           /\ addresses' = addresses]_vars

TimedOutSeen == TimedOut(last)

(* C4: a confirmation timeout is reported as an outcome of its own: not with
   the kind a ledger-reported failure is reported with, and not as failed. *)
TimeoutIsOwnKind == TimedOut(last) => last.alert.text # "Transfer failed"

LedgerCallNames ==
  {"getLatestBlockhash", "sendRawTransaction", "confirmTransaction", "getBalance",
   "requestAirdrop"}

LedgerCalls(log) == SelectSeq(log, LAMBDA c : c \in LedgerCallNames)

Stages == <<"getLatestBlockhash", "sendRawTransaction", "confirmTransaction", "getBalance">>

IsPrefix(s, r) == Len(s) <= Len(r) /\ \A i \in DOMAIN s : s[i] = r[i]

(* C5: the transfer stages are strictly ordered.  The LedgerClient calls of a
   transfer, running or returned, are the blockhash fetch, the submission, the
   confirmation and the balance lookup, in that order and each at most once;
   a transfer rejected by a local check has made none. *)
StagesInOrder ==
  /\ \A t \in TaskIds :
       tasks[t].kind = "transfer" => IsPrefix(LedgerCalls(tasks[t].log), Stages)
  /\ last.kind = "transfer" => IsPrefix(LedgerCalls(last.log), Stages)

(* The step is an invocation of transferSOL *)
TransferInvoked ==
  /\ events' = events + 1
  /\ \/ last'.kind = "transfer"
     \/ \E t \in TaskIds : tasks[t].kind = "none" /\ tasks'[t].kind = "transfer"

(* The amount texts that are positive finite decimals *)
PositiveAmounts == {"0.000001", "0.000005"}

(* A request that misses a field, selects no record of the book, or has an
   amount that is no positive number *)
BadRequest(form, book) ==
  \/ form.fromId = ""
  \/ form.toPubkey = ""
  \/ form.amount = ""
  \/ \A i \in DOMAIN book : IdText(book[i].id) # form.fromId
  \/ form.amount \notin PositiveAmounts

(* C6: presence and amount validation.  A transfer invoked with an empty
   field, a source id that matches no record, or an amount that is no positive
   number (0 in particular) returns at once with the alert of that check,
   makes no LedgerClient call and leaves the address book unchanged. *)
InvalidRequestRejected ==
  [][TransferInvoked /\ BadRequest(transferData, addresses)
     => /\ last'.kind = "transfer"
        /\ last'.alert.text \in {"Please fill in all transfer details",
                                "Invalid From address selection.",
                                "Please enter a valid positive amount"}
        /\ last'.log = <<>>
        /\ tasks' = tasks
        /\ addresses' = addresses
        /\ storage' = storage]_vars

ZeroAmountRejected ==
  /\ last.kind = "transfer"
  /\ transferData.amount = "0"
  /\ last.alert.text = "Please enter a valid positive amount"

(* C7: the balance pre-check is strict.  A transfer that has passed its local
   checks found a cached balance greater than amount + FEE_RESERVE. *)
BalancePrecheckStrict ==
  \A t \in TaskIds :
    tasks[t].kind = "transfer"
    => tasks[t].snap[tasks[t].from].balance > tasks[t].amount + FEE_RESERVE

(* The destination texts that are addresses on the curve *)
CurveAddresses == {"dest"}

(* C8: destination validation.  A transfer that is running, or that returned
   after a LedgerClient call, has a destination that is an address on the
   curve; a transfer invoked with any other destination text, its earlier
   checks passed, returns at once with a destination alert and no LedgerClient
   call. *)
DestinationValidated ==
  [][/\ \A t \in TaskIds : tasks'[t].kind = "transfer" => tasks'[t].to \in CurveAddresses
     /\ last'.kind = "transfer" /\ last'.log # <<>> => last'.to \in CurveAddresses
     /\ (/\ TransferInvoked
         /\ transferData.toPubkey \notin CurveAddresses \cup {""}
         /\ ValidationAlert([transferData EXCEPT !.toPubkey = "dest"], addresses) = "")
        => /\ last'.alert.text \in {"Invalid destination address format",
                                   "Invalid destination address"}
           /\ last'.log = <<>>
           /\ tasks' = tasks]_vars

OffCurveRejected ==
  /\ last.kind = "transfer"
  /\ transferData.toPubkey = "offCurve"
  /\ last.alert.text = "Invalid destination address"

(* The confirmation lookup settled first and reported no on-chain error *)
Confirmed(x) ==
  x.settled.by = "confirmation" /\ x.settled.how = "fulfilled" /\ ~x.settled.err

(* C9: the post-success effects happen if and only if the transfer was
   confirmed.  A returned transfer has refreshed the balance and cleared the
   form exactly if it was confirmed; a running transfer is refreshing exactly
   if it was confirmed; every other step of a transfer leaves the address book
   and the form as they are. *)
PostSuccessIffConfirmed ==
  [][/\ last'.kind = "transfer"
        => IF Confirmed(last')
           THEN {"refreshBalance", "setAddresses", "setTransferData"} \subseteq Range(last'.log)
           ELSE /\ Range(last'.log) \cap {"refreshBalance", "getBalance", "setAddresses",
                                         "setTransferData"} = {}
                /\ addresses' = addresses
                /\ transferData' = transferData
     /\ \A t \in TaskIds :
          tasks'[t].kind = "transfer"
          => /\ Confirmed(tasks'[t]) <=> "refreshBalance" \in Range(tasks'[t].log)
             /\ Confirmed(tasks'[t]) <=> tasks'[t].pc = "refresh"
             /\ tasks'[t] # tasks[t] => addresses' = addresses /\ transferData' = transferData]_vars

ConfirmedAndCleared ==
  /\ last.kind = "transfer"
  /\ Confirmed(last)
  /\ "setTransferData" \in Range(last.log)
  /\ transferData = NoTransferData

(* C10: a failed balance lookup preserves the balance.  When a refresh whose
   lookup failed writes its result, the record holds the balance it had when
   the refresh started: a failed lookup never sets it to zero. *)
FailedLookupKeepsBalance ==
  [][\A t \in TaskIds :
       RefreshWrites(t)
       => \A i \in DOMAIN last'.results :
            ~last'.results[i].ok
            => addresses'[i].balance = tasks[t].snap[i].balance]_vars

(* C11: refresh frame.  When a refresh writes its result and the address
   book is still the one the refresh started with, the book after the write
   has the same records in the same order; a record of another id is as it
   was; a record of the refreshed id differs in its balance only, and after a
   lookup that answered, the balance is the answered amount of lamports in
   display units. *)
RefreshFrame ==
  [][\A t \in TaskIds :
       RefreshWrites(t) /\ addresses = tasks[t].snap
       => /\ Len(addresses') = Len(addresses)
          /\ \A i \in DOMAIN addresses :
               IF addresses[i].id = tasks[t].id
               THEN /\ [addresses'[i] EXCEPT !.balance = 0]
                         = [addresses[i] EXCEPT !.balance = 0]
                    /\ i \in DOMAIN last'.results
                    /\ last'.results[i].ok
                       => addresses'[i].balance * (LAMPORTS_PER_SOL \div MicroPerSol)
                            = last'.results[i].lamports
               ELSE addresses'[i] = addresses[i]]_vars

RefreshedToAnswer ==
  /\ last.kind = "refresh"
  /\ \E i \in DOMAIN last.results \cap DOMAIN addresses :
       /\ last.results[i].ok
       /\ last.results[i].lamports = 10000
       /\ addresses[i].id = last.id
       /\ addresses[i].showPrivate
       /\ addresses[i].balance = 10

(* C12: a refresh of an id that matches no record makes no balance lookup and
   reports to its caller that the record was not found. *)
UnknownRefreshReported ==
  last.kind = "refresh" /\ "getBalance" \notin Range(last.log) => last.alert # NoAlert

(* The step is an invocation of requestAirdrop *)
FaucetInvoked ==
  /\ events' = events + 1
  /\ \/ last'.kind = "faucet"
     \/ \E t \in TaskIds : tasks[t].kind = "none" /\ tasks'[t].kind = "faucet"

(* The faucet amounts above the cap of 2 *)
OverCapTexts == {"2.1", "3"}

(* C13: faucet cap.  A faucet request invoked with an amount above 2 returns
   at once, has made no LedgerClient call and leaves the address book and its
   stored copy unchanged; no running faucet request has an amount above 2. *)
FaucetCapEnforced ==
  [][/\ \A t \in TaskIds :
          tasks'[t].kind = "faucet" => tasks'[t].amount <= 2 * MicroPerSol
     /\ FaucetInvoked /\ faucetAmount \in OverCapTexts
        => /\ last'.kind = "faucet"
           /\ last'.log = <<>>
           /\ tasks' = tasks
           /\ addresses' = addresses
           /\ storage' = storage]_vars

OverCapRejected ==
  /\ last.kind = "faucet"
  /\ faucetAmount = "3"
  /\ last.alert.text = "Maximum airdrop amount is 2 SOL on testnet"
  /\ last.log = <<>>

(* C14: the faucet refreshes only on success.  A faucet request, running or
   returned, has triggered the balance refresh only if its confirmation
   settled fulfilled and without an on-chain error. *)
FaucetRefreshOnlyConfirmed ==
  /\ \A t \in TaskIds :
       tasks[t].kind = "faucet" /\ "refreshBalance" \in Range(tasks[t].log)
       => Confirmed(tasks[t])
  /\ last.kind = "faucet" /\ "refreshBalance" \in Range(last.log) => Confirmed(last)

(* A payload that is no array, or has an entry without id, publicKey or
   privateKey, with a publicKey that is no address, or with a secret that is
   not 64 bytes long *)
RejectedPayload(payload) ==
  \/ ~payload.array
  \/ \E i \in DOMAIN payload.items :
       LET e == payload.items[i]
       IN e.id = 0 \/ e.publicKey <= 0 \/ e.privateKey.len # 64

(* C15: import is all-or-nothing.  An import of a payload that is no array
   or has one bad entry, at whatever position, adds nothing: the address book
   and its stored copy are unchanged and the failure is shown. *)
ImportAllOrNothing ==
  [][\A payload \in Payloads :
       RejectedPayload(payload) /\ loadKeypairs(payload)
       => /\ addresses' = addresses
          /\ storage' = storage
          /\ last'.alert.text = "Failed to load keypairs"]_vars

ShortSecretRejected ==
  /\ last.kind = "import"
  /\ last.alert.text = "Failed to load keypairs"
  /\ last.alert.detail = "Invalid private key format"

(* The entries of items whose publicKey is not in keys, in their order *)
RECURSIVE KeepNew(_, _)
KeepNew(items, keys) ==
  IF items = <<>> THEN <<>>
  ELSE IF Head(items).publicKey \in keys THEN KeepNew(Tail(items), keys)
  ELSE <<Head(items)>> \o KeepNew(Tail(items), keys)

(* C16: import merge.  After the import of a valid payload the address book
   is the book before it followed by the payload entries whose publicKey no
   record of that book had, in payload order; the stored copy is that book. *)
ImportMerges ==
  [][\A payload \in Payloads :
       ~RejectedPayload(payload) /\ loadKeypairs(payload)
       => /\ addresses' = addresses \o KeepNew(payload.items,
                                                {addresses[i].publicKey : i \in DOMAIN addresses})
          /\ storage' = addresses']_vars

OneNewOneSkipped ==
  /\ last.kind = "import"
  /\ last.alert.text = "Successfully loaded keypairs"
  /\ Len(addresses) = 2
  /\ addresses[1].publicKey = BackupEntry.publicKey
  /\ addresses[1].id # BackupEntry.id
  /\ addresses[2] = ForeignEntry

UniqueIds(book) == \A i, j \in DOMAIN book : i # j => book[i].id # book[j].id

(* C17: id uniqueness.  No step takes an address book whose ids are all
   different to one in which two records have the same id. *)
IdsStayUnique == [][UniqueIds(addresses) => UniqueIds(addresses')]_vars

(* C18: create appends.  A step that generates a keypair takes the address
   book to the same book followed by one record, which has that keypair, the
   clock's value as id, balance 0 and a hidden private key; the stored copy is
   that book. *)
CreateAppends ==
  [][generated' # generated
     => /\ Len(addresses') = Len(addresses) + 1
        /\ SubSeq(addresses', 1, Len(addresses)) = addresses
        /\ addresses'[Len(addresses')] =
             [id |-> now, publicKey |-> generated', showPrivate |-> FALSE, balance |-> 0,
              privateKey |-> [key |-> generated', len |-> 64]]
        /\ storage' = addresses']_vars

TwoCreatedInOrder ==
  /\ generated = 2
  /\ Len(addresses) = 2
  /\ \A i \in 1..2 :
       /\ addresses[i].id >= ClockAtStart
       /\ addresses[i].publicKey = i
       /\ addresses[i].balance = 0

(* The records of book whose id is not id, in their order *)
RECURSIVE Without(_, _)
Without(book, id) ==
  IF book = <<>> THEN <<>>
  ELSE IF Head(book).id = id THEN Without(Tail(book), id)
  ELSE <<Head(book)>> \o Without(Tail(book), id)

(* C19: delete is exact and idempotent.  A delete of id takes the address
   book to its records of other ids, in their order; when no record has the
   id the book is as it was; a second delete of id would then change
   nothing. *)
DeleteExact ==
  [][\A id \in Ids :
       deleteAddress(id)
       => /\ addresses' = Without(addresses, id)
          /\ storage' = addresses'
          /\ (\A i \in DOMAIN addresses : addresses[i].id # id) => addresses' = addresses
          /\ Without(addresses', id) = addresses']_vars

FirstOfTwoDeleted == addresses = <<Stored(2, 2, 0)>>

(* The book with showPrivate negated in the records of id *)
Flipped(book, id) ==
  [i \in DOMAIN book |->
     [id |-> book[i].id, publicKey |-> book[i].publicKey, privateKey |-> book[i].privateKey,
      balance |-> book[i].balance,
      showPrivate |-> IF book[i].id = id THEN ~book[i].showPrivate ELSE book[i].showPrivate]]

(* C20: toggle frame.  A toggle of id negates showPrivate in the records of
   that id and changes nothing else; when no record has the id the book is as
   it was; a second toggle of id would restore the book. *)
ToggleFrame ==
  [][\A id \in Ids :
       togglePrivateKey(id)
       => /\ addresses' = Flipped(addresses, id)
          /\ storage' = addresses'
          /\ (\A i \in DOMAIN addresses : addresses[i].id # id) => addresses' = addresses
          /\ Flipped(addresses', id) = addresses]_vars

ShownByToggle == \E i \in DOMAIN addresses : addresses[i].id = 1 /\ addresses[i].showPrivate

(* C21: persistence follows every mutation.  When no handler is in the
   middle of a step, the array in localStorage is the current address book: at
   start, and after every create, delete, toggle, refresh write and import,
   those of an absent id included. *)
PersistedIsCurrent == storage = addresses

PersistedAfterEdits ==
  /\ last.kind = "refresh"
  /\ "setAddresses" \in Range(last.log)
  /\ \E i \in DOMAIN storage : storage[i].id >= ClockAtStart /\ storage[i].balance = 10

(* C22: key pairing is immutable.  In every step, a publicKey that the
   address book holds before and after keeps the privateKey it is paired
   with, and every record after the step holds the two keys of one keypair,
   as every record created, stored or imported does. *)
KeysNeverRewritten ==
  [][/\ \A i \in DOMAIN addresses, j \in DOMAIN addresses' :
          addresses'[j].publicKey = addresses[i].publicKey
          => addresses'[j].privateKey = addresses[i].privateKey
     /\ \A j \in DOMAIN addresses' :
          addresses'[j].privateKey = [key |-> addresses'[j].publicKey, len |-> 64]]_vars

KeysKeptThroughEdits ==
  /\ Len(addresses) = 2
  /\ addresses[1].showPrivate
  /\ addresses[2].showPrivate
  /\ addresses[2].balance = 10
  /\ \A i \in 1..2 :
       addresses[i].privateKey = [key |-> addresses[i].publicKey, len |-> 64]

(* C23: import reports counts.  A successful import tells its caller how
   many entries it skipped and how many it merged. *)
ImportReportsCounts ==
  last.kind = "import" /\ last.alert.text = "Successfully loaded keypairs"
  => last.alert.detail # ""

DistinctKeys(book) ==
  \A i, j \in DOMAIN book : i # j => book[i].publicKey # book[j].publicKey

(* C27: public-key uniqueness.  No create, delete or import takes an address
   book whose publicKeys are all different to one in which two records have
   the same publicKey. *)
KeysStayDistinct == [][DistinctKeys(addresses) => DistinctKeys(addresses')]_vars

(* C28: export/import round trip.  A backup leaves the address book and its
   stored copy as they are; its file holds the records of the book in their
   order; the import accepts the file; merged into the same book the file
   adds nothing, and merged into an empty book it gives the book back. *)
ExportRoundTrip ==
  [][last'.kind = "backup"
     => /\ addresses' = addresses
        /\ storage' = storage
        /\ last'.results = addresses
        /\ PayloadError([array |-> TRUE, items |-> last'.results]) = ""
        /\ Merged(addresses, last'.results) = addresses
        /\ Merged(<<>>, last'.results) = addresses]_vars

BackupOfTwo ==
  /\ last.kind = "backup"
  /\ Len(addresses) = 2
  /\ last.results = addresses
  /\ addresses[1].showPrivate
  /\ addresses[2].balance = NaN

(* C26: nothing is fatal.  No operation, the read of the stored array at
   start included, ends in an error that nothing catches. *)
NothingFatal == last.kind # "uncaught"

(* A transfer that has been submitted and has no terminal outcome yet *)
Submitted(t) == tasks[t].kind = "transfer" /\ tasks[t].pc = "confirm"

(* The amounts, each with the fee reserve, of the submitted transfers of the
   slots in ts that have the record of id as their source *)
RECURSIVE Committed(_, _)
Committed(ts, id) ==
  IF ts = {} THEN 0
  ELSE LET t == CHOOSE u \in ts : TRUE
       IN (IF Submitted(t) /\ tasks[t].id = id THEN tasks[t].amount + FEE_RESERVE ELSE 0)
          + Committed(ts \ {t}, id)

(* C29: overlapping transfers from one source.  The submitted transfers from
   a record that have no terminal outcome yet commit, fee reserves included,
   no more than the cached balance of that record. *)
OverlappingWithinBalance ==
  \A i \in DOMAIN addresses :
    addresses[i].balance # NaN => Committed(TaskIds, addresses[i].id) <= addresses[i].balance

(* C24: freshness binding.  A transfer that waits for the blockhash has
   passed the local checks and built its transaction, unsigned and without
   blockhash; from then on the transaction carries the blockhash this run
   fetched and is signed, and it is signed exactly when it has been sent; the
   confirmation is asked for with the signature of that transaction and the
   blockhash and height this run fetched, whatever other transfers are in
   flight. *)
FreshnessBinding ==
  \A t \in TaskIds :
    tasks[t].kind = "transfer"
    => LET k == tasks[t]
       IN /\ k.transaction.feePayer = k.snap[k.from].publicKey
          /\ k.transaction.toPubkey = k.to
          /\ k.transaction.amount = k.amount
          /\ k.to \in CurveAddresses /\ k.amount > 0
          /\ k.transaction.signed <=> "sendRawTransaction" \in Range(k.log)
          /\ k.pc = "blockhash"
             => /\ k.log = <<"getLatestBlockhash">>
                /\ k.transaction.recentBlockhash = 0
                /\ ~k.transaction.signed
          /\ k.pc # "blockhash"
             => /\ k.fetched.blockhash \in Blockhashes
                /\ k.transaction.recentBlockhash = k.fetched.blockhash
                /\ k.transaction.signed
                /\ IsPrefix(<<"getLatestBlockhash", "sendRawTransaction">>, k.log)
          /\ k.pc \in {"confirm", "refresh"}
             => /\ IsPrefix(<<"getLatestBlockhash", "sendRawTransaction",
                              "confirmTransaction">>, k.log)
                /\ k.confirming.signature = k.transaction
                /\ k.confirming.blockhash = k.fetched.blockhash
                /\ k.confirming.lastValidBlockHeight = k.fetched.lastValidBlockHeight
          /\ k.pc \in {"blockhash", "send"} => k.confirming = NoConfirmation

TwoBoundTransfers ==
  /\ tasks[1].kind = "transfer" /\ tasks[1].pc = "confirm"
  /\ tasks[2].kind = "transfer" /\ tasks[2].pc = "confirm"
  /\ tasks[1].fetched.blockhash # tasks[2].fetched.blockhash

(* The transfer in slot t gets its outcome in this step *)
Decided(t) == tasks[t].pc = "confirm" /\ tasks'[t].pc # "confirm"

OutcomeConfirmed(t) ==
  /\ tasks'[t].pc = "refresh"
  /\ Confirmed(tasks'[t])
  /\ last' = NothingReturned
  /\ late' = late \cup {"timer"}

OutcomeRejected(t) ==
  /\ tasks'[t] = NoTask
  /\ last'.kind = "transfer"
  /\ last'.settled.by = "confirmation"
  /\ ~Confirmed(last')
  /\ last'.alert.text = "Transfer failed"
  /\ late' = late \cup {"timer"}

OutcomeTimedOut(t) ==
  /\ tasks'[t] = NoTask
  /\ TimedOut(last')
  /\ last'.alert.text = "Transfer failed"
  /\ late' = late \cup {"confirmation"}

(* C25: exactly one terminal outcome per submitted transfer.  With a timer
   that fires, a submitted transfer gets an outcome; the step that gives it
   gives exactly one of confirmed, rejected and timed out, by the promise that
   settled first, and leaves the other promise to settle later; the step in
   which that other promise settles reports nothing, refreshes nothing, and
   leaves the address book, its stored copy, the transfer form and every
   running handler as they are. *)
OneTerminalOutcome ==
  /\ \A t \in TaskIds : (tasks[t].pc = "confirm") ~> (tasks[t].pc # "confirm")
  /\ [][/\ \A t \in TaskIds :
             Decided(t)
             => \/ OutcomeConfirmed(t) /\ ~OutcomeRejected(t) /\ ~OutcomeTimedOut(t)
                \/ ~OutcomeConfirmed(t) /\ OutcomeRejected(t) /\ ~OutcomeTimedOut(t)
                \/ ~OutcomeConfirmed(t) /\ ~OutcomeRejected(t) /\ OutcomeTimedOut(t)
        /\ (\E by \in Racers : by \in late /\ by \notin late')
           => /\ last' = NothingReturned
              /\ addresses' = addresses
              /\ storage' = storage
              /\ transferData' = transferData
              /\ tasks' = tasks]_vars

LateTimerIgnored ==
  /\ events = 4
  /\ transferData = NoTransferData
  /\ late = NoLate
  /\ last = NothingReturned
  /\ \A t \in TaskIds : tasks[t] = NoTask

====
